---------------------------- MODULE Spec2Model ----------------------------
(***************************************************************************)
(* The retry/backoff loop of download_profile_images (src/main.py).        *)
(*                                                                         *)
(* The Media Source (instaloader) is the environment: it produces the      *)
(* post sequence, and each pull of the next post, each download_post call  *)
(* and each backoff sleep either returns or raises.  The loop's reaction   *)
(* (except clauses, backoff, finally block, summary) is the program.       *)
(***************************************************************************)
EXTENDS Integers, Sequences, FiniteSets, TLC

(***************************************************************************)
(* Bounds of the model.                                                    *)
(***************************************************************************)
\* longest post sequence a profile yields
MaxPosts == 3
\* Spec: download_post succeeds only while processed < MaxProcessed
MaxProcessed == 3
\* Spec: a backoff starts only while fewer than MaxBackoffs were started
MaxBackoffs == 6

Min(a, b) == IF a < b THEN a ELSE b

(***************************************************************************)
(* Text: a message is a sequence of one-character strings.                 *)
(***************************************************************************)
UpperCase == <<"A","B","C","D","E","F","G","H","I","J","K","L","M",
               "N","O","P","Q","R","S","T","U","V","W","X","Y","Z">>
LowerCase == <<"a","b","c","d","e","f","g","h","i","j","k","l","m",
               "n","o","p","q","r","s","t","u","v","w","x","y","z">>

\* str.lower() on one character
LowerChar(c) ==
    IF \E k \in 1..Len(UpperCase) : UpperCase[k] = c
    THEN LowerCase[CHOOSE k \in 1..Len(UpperCase) : UpperCase[k] = c]
    ELSE c

\* str.lower()
Lower(text) == [k \in 1..Len(text) |-> LowerChar(text[k])]

\* `pat in text`
Contains(text, pat) ==
    \E s \in 0..(Len(text) - Len(pat)) :
        \A k \in 1..Len(pat) : text[s + k] = pat[k]

\* the literal of PLEASE_WAIT_PAT
PleaseWaitText ==
    <<"p","l","e","a","s","e"," ","w","a","i","t"," ","a"," ",
      "f","e","w"," ","m","i","n","u","t","e","s">>
\* PLEASE_WAIT_PAT.search(text) is not None, the pattern compiled IGNORECASE
PLEASE_WAIT_PAT(text) == Contains(Lower(text), PleaseWaitText)

Text429 == <<"4","2","9">>
TextRateLimit == <<"r","a","t","e"," ","l","i","m","i","t">>

(***************************************************************************)
(* Exceptions: the class raised, str(exc), and where it was raised.        *)
(***************************************************************************)
\* the instaloader classes the module imports: the three QueryReturned...
\* classes derive from ConnectionException; all derive from Exception.
\* KeyboardInterrupt derives from BaseException only.
Parents(kind) ==
    CASE kind = "QueryReturnedBadRequestException" -> {"ConnectionException", "Exception"}
      [] kind = "QueryReturnedNotFoundException"   -> {"ConnectionException", "Exception"}
      [] kind = "QueryReturnedForbiddenException"  -> {"ConnectionException", "Exception"}
      [] kind = "ConnectionException"              -> {"Exception"}
      [] kind = "BadCredentialsException"          -> {"Exception"}
      [] kind = "TwoFactorAuthRequiredException"   -> {"Exception"}
      [] kind = "ProfileNotExistsException"        -> {"Exception"}
      [] OTHER                                     -> {}

\* isinstance(exc, cls)
IsInstance(e, cls) == e.kind = cls \/ cls \in Parents(e.kind)

MsgPlain == <<"b","o","o","m">>
Msg429 == <<"H","T","T","P"," ","4","2","9">>
MsgWait == <<"P","l","e","a","s","e"," ","W","A","I","T"," ","a"," ",
             "f","e","w"," ","M","i","n","u","t","e","s",".">>
MsgRate == <<"R","a","t","e"," ","L","i","m","i","t">>

\* messages that come close to the three patterns of should_backoff
MsgEmpty == <<>>
MsgWaitLower == <<"x"," ","p","l","e","a","s","e"," ","w","a","i","t"," ","a"," ",
                  "f","e","w"," ","m","i","n","u","t","e","s">>
MsgWaitShort == <<"P","l","e","a","s","e"," ","w","a","i","t"," ","a"," ",
                  "f","e","w"," ","m","i","n","u","t","e">>
Msg4290 == <<"i","d"," ","1","4","2","9","0">>
Msg42_9 == <<"4","2"," ","9">>
MsgRateUpper == <<"R","A","T","E"," ","L","I","M","I","T","E","D">>
MsgRateJoined == <<"r","a","t","e","l","i","m","i","t">>
MsgRateWide == <<"r","a","t","e"," "," ","l","i","m","i","t">>

Messages ==
    {MsgPlain, Msg429, MsgWait, MsgRate, MsgEmpty, MsgWaitLower, MsgWaitShort,
     Msg4290, Msg42_9, MsgRateUpper, MsgRateJoined, MsgRateWide}

\* the classes of the Exception hierarchy the module imports, and Exception
Kinds ==
    {"Exception", "ConnectionException", "QueryReturnedBadRequestException",
     "QueryReturnedForbiddenException", "QueryReturnedNotFoundException",
     "ProfileNotExistsException", "BadCredentialsException"}

\* every exception an except clause of the loop can be handed
Catchable == [kind : Kinds, msg : Messages]

NoExc == [kind |-> "None", msg |-> <<>>]

\* what a Media Source call may raise
Raisable ==
    {[kind |-> "ConnectionException",              msg |-> MsgPlain],
     [kind |-> "QueryReturnedBadRequestException", msg |-> MsgPlain],
     [kind |-> "QueryReturnedForbiddenException",  msg |-> MsgPlain],
     [kind |-> "QueryReturnedNotFoundException",   msg |-> MsgPlain],
     [kind |-> "QueryReturnedNotFoundException",   msg |-> Msg429],
     [kind |-> "Exception",                        msg |-> MsgPlain],
     [kind |-> "Exception",                        msg |-> Msg429],
     [kind |-> "Exception",                        msg |-> MsgWait],
     [kind |-> "Exception",                        msg |-> MsgRate],
     [kind |-> "KeyboardInterrupt",                msg |-> <<>>]}

\* mutant of should_backoff: every exception counts as a rate limit
should_backoff_any(e) == TRUE

\* mutant of should_backoff: "rate limit" looked for without .lower()
should_backoff_cased(e) ==
    \/ IsInstance(e, "ConnectionException")
    \/ IsInstance(e, "QueryReturnedBadRequestException")
    \/ IsInstance(e, "QueryReturnedForbiddenException")
    \/ PLEASE_WAIT_PAT(e.msg)
    \/ Contains(e.msg, Text429)
    \/ Contains(e.msg, TextRateLimit)

\* should_backoff(exc)
should_backoff(e) ==
    \/ IsInstance(e, "ConnectionException")
    \/ IsInstance(e, "QueryReturnedBadRequestException")
    \/ IsInstance(e, "QueryReturnedForbiddenException")
    \/ PLEASE_WAIT_PAT(e.msg)
    \/ Contains(e.msg, Text429)
    \/ Contains(Lower(e.msg), TextRateLimit)

\* mutant of Classify: the `except Exception` clause placed first
ClassifyBackoffFirst(e) ==
    IF ~IsInstance(e, "Exception") THEN "uncaught"
    ELSE IF should_backoff(e) THEN "retry"
    ELSE IF IsInstance(e, "QueryReturnedNotFoundException") THEN "notfound"
    ELSE "fatal"

\* mutant of Classify: the last clause is `except ConnectionException`
ClassifyNarrow(e) ==
    IF IsInstance(e, "QueryReturnedNotFoundException") THEN "notfound"
    ELSE IF ~IsInstance(e, "ConnectionException") THEN "uncaught"
    ELSE IF should_backoff(e) THEN "retry"
    ELSE "fatal"

\* which clause of the try statement takes the exception: the except clauses
\* are tried in order, and `except Exception` does not take a BaseException
Classify(e) ==
    IF IsInstance(e, "QueryReturnedNotFoundException") THEN "notfound"
    ELSE IF ~IsInstance(e, "Exception") THEN "uncaught"
    ELSE IF should_backoff(e) THEN "retry"
    ELSE "fatal"

(***************************************************************************)
(* The backoff schedule and the stall guard.                               *)
(***************************************************************************)
backoffs == <<60, 120, 300, 600, 1200>>

\* mutant of WaitFor: the index wraps around instead of staying on the last wait
WaitForWrapped(idx) == backoffs[(idx % Len(backoffs)) + 1]

\* wait_s = backoffs[min(bo_idx, len(backoffs) - 1)]   (0-based in the source)
WaitFor(idx) == backoffs[Min(idx, Len(backoffs) - 1) + 1]

\* mutant of StallGuard: the guard fires while one wait of the schedule is left
StallGuardEarly(p, cb, bo) == p = cb /\ bo >= Len(backoffs) - 1

\* mutant of StallGuard: the index compared with > instead of >=
StallGuardLate(p, cb, bo) == p = cb /\ bo > Len(backoffs)

\* the condition of the finally block
StallGuard(p, cb, bo) == p = cb /\ bo >= Len(backoffs)

\* where control goes once the finally block has run: its break overrides the
\* pending break, continue or in-flight exception of the try statement
AfterFinally(pending, p, cb, bo) ==
    IF StallGuard(p, cb, bo) THEN "summary"
    ELSE CASE pending = "break"    -> "summary"
           [] pending = "continue" -> "loop"
           [] pending = "raise"    -> "crashed"

\* mutant of IsSkipped: a pinned video is not skipped
IsSkippedUnpinned(post) == post.is_video /\ ~post.is_pinned

\* `if post.is_video: ... continue`
IsSkipped(post) == post.is_video

(***************************************************************************)
(* State.                                                                  *)
(***************************************************************************)
VARIABLES
    posts,            \* what profile.get_posts() yields, in order; the shortcode
                      \* of a post is its position
    use_fast_update,  \* the --fast-update flag
    saved,            \* shortcodes whose media are on disk
    pc,               \* "loop", "iter", "post", "except", "sleep", "summary",
                      \* "done", "crashed"
    i,                \* position of the post last pulled in this traversal
    processed,
    count_before,
    bo_idx,
    wait_s,
    exc,              \* the exception in flight, until the summary is printed
    raisedAt,         \* "pull", "download" or "sleep": the call that raised the
                      \* exception being handled
    downloaded,       \* shortcodes for which download_post returned
    invoked,          \* shortcodes for which download_post was called
    resaved,          \* download_post was called for a post already on disk
    waits,            \* the wait of every polite_sleep call, in order
    outcome,          \* how the last try block ended
    stalled,          \* the finally block's break was taken
    summary,          \* the count printed by the final summary, -1 before it
    rounds,           \* traversals started
    zeroRounds,       \* traversals ended with processed == count_before
    calls,            \* shortcodes download_post was called for in this
                      \* traversal, in order
    got,              \* shortcodes download_post returned for in this traversal
    args,             \* session_file, sessionid and login_user as passed, and
                      \* os.path.exists(session_file)
    auth              \* the authentication methods used, whether the loader is
                      \* logged in, whether save_session wrote the session

vars == <<posts, use_fast_update, saved, pc, i, processed, count_before, bo_idx,
          wait_s, exc, raisedAt, downloaded, invoked, resaved, waits, outcome,
          stalled, summary, rounds, zeroRounds, calls, got, args, auth>>

\* the state of the retry loop but pc, exc and raisedAt
loopVars == <<posts, use_fast_update, saved, i, processed, count_before, bo_idx,
              wait_s, downloaded, invoked, resaved, waits, outcome, stalled,
              summary, rounds, zeroRounds, calls, got>>

\* an optional string argument: None, the empty string, or a value
OptStr == {"None", "", "x"}

\* `if s:` for an Optional[str]
Truthy(s) == s \notin {"None", ""}

\* the arguments of download_profile_images that authentication reads;
\* os.path.exists is true of no empty path
Args ==
    {a \in [session_file : OptStr, file_exists : BOOLEAN,
            sessionid : OptStr, login_user : OptStr] :
        a.file_exists => Truthy(a.session_file)}

NoArgs == [session_file |-> "None", file_exists |-> FALSE,
           sessionid |-> "None", login_user |-> "None"]

NoAuth == [used |-> {}, logged_in |-> FALSE, session_saved |-> FALSE]

Post == [is_video : BOOLEAN, is_pinned : BOOLEAN]

\* a profile's pinned post, if any, is yielded first
PostSeqs ==
    {ps \in UNION {[1..n -> Post] : n \in 0..MaxPosts} :
        \A k \in 1..Len(ps) : ps[k].is_pinned => k = 1}

\* the destination folder is fresh, or an earlier run saved every post
SavedSets(ps) == {{}, 1..Len(ps)}

Init ==
    /\ posts \in PostSeqs
    /\ use_fast_update \in BOOLEAN
    /\ saved \in SavedSets(posts)
    /\ pc = "loop"
    /\ i = 0
    /\ processed = 0
    /\ count_before = 0
    /\ bo_idx = 0
    /\ wait_s = 0
    /\ exc = NoExc
    /\ raisedAt = "none"
    /\ downloaded = {}
    /\ invoked = {}
    /\ resaved = FALSE
    /\ waits = <<>>
    /\ outcome = "none"
    /\ stalled = FALSE
    /\ summary = -1
    /\ rounds = 0
    /\ zeroRounds = 0
    /\ calls = <<>>
    /\ got = {}
    /\ args = NoArgs
    /\ auth = NoAuth


(***************************************************************************)
(* Counters.  Python integers are unbounded.  Under Spec the counters are  *)
(* exact and the environment stops feeding them at the bounds (the guards  *)
(* CanCount and CanBackoff).  Under LiveSpec (abstract = TRUE) they        *)
(* saturate instead, in a way that keeps every value the code reads:       *)
(* processed and count_before are read only through processed ==           *)
(* count_before, so at the bound count_before is lowered instead of        *)
(* processed raised; bo_idx is read only through min(bo_idx, 4) and        *)
(* bo_idx >= 5, so it stays at MaxBackoffs >= 5.                           *)
(***************************************************************************)
CanCount(abstract) == abstract \/ processed < MaxProcessed

CanBackoff(abstract) == abstract \/ Len(waits) < MaxBackoffs

\* processed += 1
CountPost ==
    IF processed < MaxProcessed
    THEN processed' = processed + 1 /\ count_before' = count_before
    ELSE processed' = processed /\ count_before' = count_before - 1

\* mutant of NextIdx: the index starts over once the schedule is used up
NextIdxReset(idx) == IF idx + 1 > Len(backoffs) THEN 0 ELSE idx + 1

\* bo_idx += 1
NextIdx(idx) == IF idx < MaxBackoffs THEN idx + 1 ELSE idx

Record(ws, w) == IF Len(ws) < MaxBackoffs THEN Append(ws, w) ELSE ws

\* one more traversal started: at most one follows each backoff
NextRound(n) == IF n <= MaxBackoffs THEN n + 1 ELSE n

\* the count of traversals that ended with the condition `processed ==
\* count_before` of the finally block true
ZeroRounds(n, p, cb) == IF p = cb THEN n + 1 ELSE n

(***************************************************************************)
(* The traversal: the try block.                                           *)
(***************************************************************************)
\* a Media Source call may raise e
MayRaise(e, abstract) == Classify(e) = "retry" => CanBackoff(abstract)

\* `count_before = processed` and the call of profile.get_posts()
StartAttempt ==
    /\ pc = "loop"
    /\ count_before' = processed
    /\ i' = 0
    /\ pc' = "iter"
    /\ rounds' = NextRound(rounds)
    /\ calls' = <<>>
    /\ got' = {}
    /\ UNCHANGED <<args, auth, posts, use_fast_update, saved, processed, bo_idx, wait_s, exc,
                   raisedAt, downloaded, invoked, resaved, waits, outcome, stalled,
                   summary,
                   zeroRounds>>

\* the for statement pulls the next post
NextPost ==
    /\ pc = "iter"
    /\ i < Len(posts)
    /\ i' = i + 1
    /\ pc' = "post"
    /\ UNCHANGED <<args, auth, posts, use_fast_update, saved, processed, count_before, bo_idx,
                   wait_s, exc, raisedAt, downloaded, invoked, resaved, waits,
                   outcome, stalled, summary,
                   rounds, zeroRounds, calls, got>>

\* pulling the next post raises
PullRaises(abstract) ==
    /\ pc = "iter"
    /\ \E e \in Raisable :
        /\ MayRaise(e, abstract)
        /\ exc' = e
    /\ raisedAt' = "pull"
    /\ pc' = "except"
    /\ UNCHANGED <<args, auth, posts, use_fast_update, saved, i, processed, count_before,
                   bo_idx, wait_s, downloaded, invoked, resaved, waits, outcome,
                   stalled, summary,
                   rounds, zeroRounds, calls, got>>

\* mutant of SkipVideo: a skipped video is counted
SkipVideoCounted ==
    /\ pc = "post"
    /\ IsSkipped(posts[i])
    /\ processed' = processed + 1
    /\ pc' = "iter"
    /\ UNCHANGED <<args, auth, posts, use_fast_update, saved, i, count_before,
                   bo_idx, wait_s, exc, raisedAt, downloaded, invoked, resaved,
                   waits, outcome, stalled, summary,
                   rounds, zeroRounds, calls, got>>

\* mutant of SkipVideo: `break` in place of `continue`
SkipVideoBreaks ==
    /\ pc = "post"
    /\ IsSkipped(posts[i])
    /\ outcome' = "completed"
    /\ stalled' = StallGuard(processed, count_before, bo_idx)
    /\ pc' = AfterFinally("break", processed, count_before, bo_idx)
    /\ zeroRounds' = ZeroRounds(zeroRounds, processed, count_before)
    /\ UNCHANGED <<args, auth, posts, use_fast_update, saved, i, processed, count_before,
                   bo_idx, wait_s, exc, raisedAt, downloaded, invoked, resaved,
                   waits, summary, rounds, calls, got>>

\* the loop body for a video; the fast-update branch before it is `pass`
SkipVideo ==
    /\ pc = "post"
    /\ IsSkipped(posts[i])
    /\ pc' = "iter"
    /\ UNCHANGED <<args, auth, posts, use_fast_update, saved, i, processed, count_before,
                   bo_idx, wait_s, exc, raisedAt, downloaded, invoked, resaved,
                   waits, outcome, stalled, summary,
                   rounds, zeroRounds, calls, got>>

\* L.download_post returns; processed += 1
DownloadOk(abstract) ==
    /\ pc = "post"
    /\ ~IsSkipped(posts[i])
    /\ CanCount(abstract)
    /\ invoked' = invoked \cup {i}
    /\ resaved' = (resaved \/ i \in saved)
    /\ saved' = saved \cup {i}
    /\ downloaded' = downloaded \cup {i}
    /\ CountPost
    /\ pc' = "iter"
    /\ calls' = Append(calls, i)
    /\ got' = got \cup {i}
    /\ UNCHANGED <<args, auth, posts, use_fast_update, i, bo_idx, wait_s, exc, raisedAt, waits,
                   outcome, stalled, summary,
                   rounds, zeroRounds>>

\* mutant of DownloadRaises: the failure is logged and the traversal goes on
DownloadRaisesLogged(abstract) ==
    /\ pc = "post"
    /\ ~IsSkipped(posts[i])
    /\ invoked' = invoked \cup {i}
    /\ resaved' = (resaved \/ i \in saved)
    /\ pc' = "iter"
    /\ calls' = Append(calls, i)
    /\ UNCHANGED <<args, auth, posts, use_fast_update, saved, i, processed, count_before,
                   bo_idx, wait_s, exc, raisedAt, downloaded, waits, outcome,
                   stalled, summary,
                   rounds, zeroRounds, got>>

\* L.download_post raises: the exception leaves the for loop
DownloadRaises(abstract) ==
    /\ pc = "post"
    /\ ~IsSkipped(posts[i])
    /\ \E e \in Raisable :
        /\ MayRaise(e, abstract)
        /\ exc' = e
    /\ raisedAt' = "download"
    /\ invoked' = invoked \cup {i}
    /\ resaved' = (resaved \/ i \in saved)
    /\ pc' = "except"
    /\ calls' = Append(calls, i)
    /\ UNCHANGED <<args, auth, posts, use_fast_update, saved, i, processed, count_before,
                   bo_idx, wait_s, downloaded, waits, outcome, stalled, summary,
                   rounds, zeroRounds, got>>

\* the sequence is exhausted: `break`, then the finally block
EndOfPosts ==
    /\ pc = "iter"
    /\ i = Len(posts)
    /\ outcome' = "completed"
    /\ stalled' = StallGuard(processed, count_before, bo_idx)
    /\ pc' = AfterFinally("break", processed, count_before, bo_idx)
    /\ zeroRounds' = ZeroRounds(zeroRounds, processed, count_before)
    /\ UNCHANGED <<args, auth, posts, use_fast_update, saved, i, processed, count_before,
                   bo_idx, wait_s, exc, raisedAt, downloaded, invoked, resaved,
                   waits, summary,
                   rounds, calls, got>>

(***************************************************************************)
(* The except clauses and the finally block.                               *)
(***************************************************************************)
\* except (QueryReturnedNotFoundException,): break
HandleNotFound ==
    /\ pc = "except"
    /\ Classify(exc) = "notfound"
    /\ outcome' = "notfound"
    /\ stalled' = StallGuard(processed, count_before, bo_idx)
    /\ pc' = AfterFinally("break", processed, count_before, bo_idx)
    /\ zeroRounds' = ZeroRounds(zeroRounds, processed, count_before)
    /\ UNCHANGED <<args, auth, posts, use_fast_update, saved, i, processed, count_before,
                   bo_idx, wait_s, exc, raisedAt, downloaded, invoked, resaved,
                   waits, summary,
                   rounds, calls, got>>

\* except Exception, should_backoff(e): wait_s is chosen, polite_sleep starts
HandleRetryable ==
    /\ pc = "except"
    /\ Classify(exc) = "retry"
    /\ wait_s' = WaitFor(bo_idx)
    /\ waits' = Record(waits, WaitFor(bo_idx))
    /\ exc' = NoExc
    /\ pc' = "sleep"
    /\ UNCHANGED <<args, auth, posts, use_fast_update, saved, i, processed, count_before,
                   bo_idx, raisedAt, downloaded, invoked, resaved, outcome, stalled,
                   summary,
                   rounds, zeroRounds, calls, got>>

\* polite_sleep returns; bo_idx += 1; continue; then the finally block
SleepDone ==
    /\ pc = "sleep"
    /\ bo_idx' = NextIdx(bo_idx)
    /\ outcome' = "retry"
    /\ stalled' = StallGuard(processed, count_before, bo_idx')
    /\ pc' = AfterFinally("continue", processed, count_before, bo_idx')
    /\ raisedAt' = "none"
    /\ zeroRounds' = ZeroRounds(zeroRounds, processed, count_before)
    /\ UNCHANGED <<args, auth, posts, use_fast_update, saved, i, processed, count_before,
                   wait_s, exc, downloaded, invoked, resaved, waits, summary,
                   rounds, calls, got>>

\* KeyboardInterrupt during polite_sleep: it leaves the except clause before
\* bo_idx += 1, and the finally block runs with it in flight
SleepInterrupted ==
    /\ pc = "sleep"
    /\ exc' = [kind |-> "KeyboardInterrupt", msg |-> <<>>]
    /\ raisedAt' = "sleep"
    /\ outcome' = "interrupt"
    /\ stalled' = StallGuard(processed, count_before, bo_idx)
    /\ pc' = AfterFinally("raise", processed, count_before, bo_idx)
    /\ zeroRounds' = ZeroRounds(zeroRounds, processed, count_before)
    /\ UNCHANGED <<args, auth, posts, use_fast_update, saved, i, processed, count_before,
                   bo_idx, wait_s, downloaded, invoked, resaved, waits, summary,
                   rounds, calls, got>>

\* except Exception, not should_backoff(e): break
HandleFatal ==
    /\ pc = "except"
    /\ Classify(exc) = "fatal"
    /\ outcome' = "fatal"
    /\ stalled' = StallGuard(processed, count_before, bo_idx)
    /\ pc' = AfterFinally("break", processed, count_before, bo_idx)
    /\ zeroRounds' = ZeroRounds(zeroRounds, processed, count_before)
    /\ UNCHANGED <<args, auth, posts, use_fast_update, saved, i, processed, count_before,
                   bo_idx, wait_s, exc, raisedAt, downloaded, invoked, resaved,
                   waits, summary,
                   rounds, calls, got>>

\* no except clause takes the exception: the finally block runs with it in flight
Uncaught ==
    /\ pc = "except"
    /\ Classify(exc) = "uncaught"
    /\ outcome' = "interrupt"
    /\ stalled' = StallGuard(processed, count_before, bo_idx)
    /\ pc' = AfterFinally("raise", processed, count_before, bo_idx)
    /\ zeroRounds' = ZeroRounds(zeroRounds, processed, count_before)
    /\ UNCHANGED <<args, auth, posts, use_fast_update, saved, i, processed, count_before,
                   bo_idx, wait_s, exc, raisedAt, downloaded, invoked, resaved,
                   waits, summary,
                   rounds, calls, got>>

\* print(f"[+] Finalizado. Posts com imagens processados: {processed}")
PrintSummary ==
    /\ pc = "summary"
    /\ summary' = processed
    /\ pc' = "done"
    /\ exc' = NoExc
    /\ raisedAt' = "none"
    /\ UNCHANGED <<args, auth, posts, use_fast_update, saved, i, processed, count_before,
                   bo_idx, wait_s, downloaded, invoked, resaved,
                   waits, outcome, stalled,
                   rounds, zeroRounds, calls, got>>

(***************************************************************************)
(* Authentication and profile resolution: what download_profile_images     *)
(* does before the retry loop.                                             *)
(***************************************************************************)
\* the conditions of the if / elif / elif chain
UseSessionFile == Truthy(args.session_file) /\ args.file_exists
UseSessionid == ~UseSessionFile /\ Truthy(args.sessionid)
UseLogin == ~UseSessionFile /\ ~UseSessionid /\ Truthy(args.login_user)

\* load_session(L, session_file): test_login names a user or None; open,
\* json.load and test_login may raise, and nothing catches that
LoadSession ==
    /\ pc = "auth"
    /\ UseSessionFile
    /\ \E r \in {"user", "anonymous", "raises"} :
        /\ auth' = [auth EXCEPT !.used = @ \cup {"session_file"}, !.logged_in = (r = "user")]
        /\ pc' = IF r = "raises" THEN "crashed" ELSE "resolve"
        /\ exc' = IF r = "raises" THEN [kind |-> "Exception", msg |-> MsgPlain] ELSE NoExc
        /\ raisedAt' = IF r = "raises" THEN "auth" ELSE "none"
    /\ UNCHANGED <<args, loopVars>>

\* apply_sessionid(L, sessionid)
ApplySessionid ==
    /\ pc = "auth"
    /\ UseSessionid
    /\ \E r \in {"user", "anonymous", "raises"} :
        /\ auth' = [auth EXCEPT !.used = @ \cup {"sessionid"}, !.logged_in = (r = "user")]
        /\ pc' = IF r = "raises" THEN "crashed" ELSE "resolve"
        /\ exc' = IF r = "raises" THEN [kind |-> "ConnectionException", msg |-> MsgPlain]
                                  ELSE NoExc
        /\ raisedAt' = IF r = "raises" THEN "auth" ELSE "none"
    /\ UNCHANGED <<args, loopVars>>

\* the try block of the login branch with its except clauses, up to the
\* prompt for the two-factor code: L.login returns (save_session then writes
\* the session, or raises inside the same try), asks for a second factor, or
\* raises BadCredentialsException or another exception; getpass may be
\* interrupted
Login ==
    /\ pc = "auth"
    /\ UseLogin
    /\ \E r \in {"ok", "save_fails", "two_factor", "bad_credentials", "error", "interrupt"} :
        /\ auth' = [auth EXCEPT !.used = @ \cup {"login"},
                                !.logged_in = (r \in {"ok", "save_fails"}),
                                !.session_saved = (r = "ok")]
        /\ pc' = CASE r = "two_factor" -> "twofactor"
                  [] r = "interrupt"  -> "crashed"
                  [] OTHER            -> "resolve"
        /\ exc' = IF r = "interrupt" THEN [kind |-> "KeyboardInterrupt", msg |-> <<>>]
                                     ELSE NoExc
        /\ raisedAt' = IF r = "interrupt" THEN "login" ELSE "none"
    /\ UNCHANGED <<args, loopVars>>

\* the `except TwoFactorAuthRequiredException` clause: the code is read,
\* L.two_factor_login and save_session are called; what they raise is raised
\* inside an except clause, so the clauses after it do not take it
TwoFactor ==
    /\ pc = "twofactor"
    /\ \E r \in {"ok", "bad_code", "save_fails"} :
        /\ auth' = [auth EXCEPT !.logged_in = (r # "bad_code"),
                                !.session_saved = (r = "ok")]
        /\ pc' = IF r = "ok" THEN "resolve" ELSE "crashed"
        /\ exc' = CASE r = "ok"         -> NoExc
                   [] r = "bad_code"   -> [kind |-> "BadCredentialsException", msg |-> MsgPlain]
                   [] r = "save_fails" -> [kind |-> "Exception", msg |-> MsgPlain]
        /\ raisedAt' = CASE r = "ok"         -> "none"
                        [] r = "bad_code"   -> "twofactor"
                        [] r = "save_fails" -> "save"
    /\ UNCHANGED <<args, loopVars>>

\* no branch of the chain is taken
SkipAuth ==
    /\ pc = "auth"
    /\ ~UseSessionFile /\ ~UseSessionid /\ ~UseLogin
    /\ pc' = "resolve"
    /\ UNCHANGED <<args, auth, exc, raisedAt, loopVars>>

\* what Profile.from_username may raise
ResolveRaisable ==
    Raisable \cup {[kind |-> "ProfileNotExistsException", msg |-> MsgPlain]}

\* Profile.from_username returns; the prints, os.makedirs, processed = 0
ResolveOk ==
    /\ pc = "resolve"
    /\ pc' = "loop"
    /\ UNCHANGED <<args, auth, exc, raisedAt, loopVars>>

\* mutant of ResolveRaises: the call sits inside the try of the retry loop
ResolveRaisesInLoop ==
    /\ pc = "resolve"
    /\ \E e \in ResolveRaisable :
        /\ exc' = e
        /\ raisedAt' = "resolve"
        /\ pc' = "except"
    /\ UNCHANGED <<args, auth, loopVars>>

\* Profile.from_username raises: both except clauses print and return
ResolveRaises ==
    /\ pc = "resolve"
    /\ \E e \in ResolveRaisable :
        /\ exc' = e
        /\ raisedAt' = "resolve"
        /\ pc' = IF IsInstance(e, "Exception") THEN "returned" ELSE "crashed"
    /\ UNCHANGED <<args, auth, loopVars>>

Next ==
    \/ StartAttempt
    \/ NextPost
    \/ PullRaises(FALSE)
    \/ SkipVideo
    \/ DownloadOk(FALSE)
    \/ DownloadRaises(FALSE)
    \/ EndOfPosts
    \/ HandleNotFound
    \/ HandleRetryable
    \/ SleepDone
    \/ SleepInterrupted
    \/ HandleFatal
    \/ Uncaught
    \/ PrintSummary

Spec == Init /\ [][Next]_vars

\* the same program over the saturating counters; every call returns or raises
\* and every sleep ends
NextLive ==
    \/ StartAttempt
    \/ NextPost
    \/ PullRaises(TRUE)
    \/ SkipVideo
    \/ DownloadOk(TRUE)
    \/ DownloadRaises(TRUE)
    \/ EndOfPosts
    \/ HandleNotFound
    \/ HandleRetryable
    \/ SleepDone
    \/ SleepInterrupted
    \/ HandleFatal
    \/ Uncaught
    \/ PrintSummary

LiveSpec == Init /\ [][NextLive]_vars /\ WF_vars(NextLive)

(***************************************************************************)
(* The whole of download_profile_images, from its arguments on.             *)
(***************************************************************************)
RunPosts == {<<[is_video |-> TRUE, is_pinned |-> FALSE],
               [is_video |-> FALSE, is_pinned |-> FALSE]>>}

RunInit ==
    /\ posts \in RunPosts
    /\ use_fast_update = FALSE
    /\ saved = {}
    /\ pc = "auth"
    /\ args \in Args
    /\ auth = NoAuth
    /\ exc = NoExc
    /\ raisedAt = "none"
    /\ i = 0
    /\ processed = 0
    /\ count_before = 0
    /\ bo_idx = 0
    /\ wait_s = 0
    /\ downloaded = {}
    /\ invoked = {}
    /\ resaved = FALSE
    /\ waits = <<>>
    /\ outcome = "none"
    /\ stalled = FALSE
    /\ summary = -1
    /\ rounds = 0
    /\ zeroRounds = 0
    /\ calls = <<>>
    /\ got = {}

RunNext ==
    \/ LoadSession
    \/ ApplySessionid
    \/ Login
    \/ TwoFactor
    \/ SkipAuth
    \/ ResolveOk
    \/ ResolveRaises
    \/ StartAttempt
    \/ NextPost
    \/ PullRaises(FALSE)
    \/ SkipVideo
    \/ DownloadOk(FALSE)
    \/ DownloadRaises(FALSE)
    \/ EndOfPosts
    \/ HandleNotFound
    \/ HandleRetryable
    \/ SleepDone
    \/ SleepInterrupted
    \/ HandleFatal
    \/ Uncaught
    \/ PrintSummary

RunSpec == RunInit /\ [][RunNext]_vars

(***************************************************************************)
(* The except clauses alone, handed every exception of Catchable: the run   *)
(* is taken at the first exception of its first traversal.                  *)
(***************************************************************************)
ClassifyInit ==
    /\ posts \in {<<>>, <<[is_video |-> FALSE, is_pinned |-> FALSE]>>}
    /\ use_fast_update = FALSE
    /\ saved = {}
    /\ pc = "except"
    /\ exc \in Catchable
    /\ raisedAt = "pull"
    /\ i = 0
    /\ processed = 0
    /\ count_before = 0
    /\ bo_idx = 0
    /\ wait_s = 0
    /\ downloaded = {}
    /\ invoked = {}
    /\ resaved = FALSE
    /\ waits = <<>>
    /\ outcome = "none"
    /\ stalled = FALSE
    /\ summary = -1
    /\ rounds = 1
    /\ zeroRounds = 0
    /\ calls = <<>>
    /\ got = {}
    /\ args = NoArgs
    /\ auth = NoAuth

ClassifyNext ==
    \/ HandleNotFound
    \/ HandleRetryable
    \/ HandleFatal
    \/ SleepDone
    \/ SleepInterrupted
    \/ PrintSummary

ClassifySpec == ClassifyInit /\ [][ClassifyNext]_vars

TypeOK ==
    /\ pc \in {"auth", "twofactor", "resolve", "returned",
              "loop", "iter", "post", "except", "sleep", "summary", "done", "crashed"}
    /\ args \in Args
    /\ auth \in [used : SUBSET {"session_file", "sessionid", "login"},
                 logged_in : BOOLEAN, session_saved : BOOLEAN]
    /\ i \in 0..Len(posts)
    /\ processed \in 0..MaxProcessed
    /\ count_before \in 0..processed
    /\ bo_idx \in 0..MaxBackoffs
    /\ Len(waits) <= MaxBackoffs
    /\ downloaded \subseteq invoked
    /\ invoked \subseteq 1..Len(posts)
    /\ rounds \in 0..(MaxBackoffs + 1)
    /\ zeroRounds \in 0..Len(backoffs)
    /\ got \subseteq downloaded


(***************************************************************************)
(* Properties.                                                             *)
(***************************************************************************)
\* the loop has been left through a break
LoopLeft == pc \in {"summary", "done"}

\* this step runs the finally block: a traversal attempt ends
EndsAttempt == pc \in {"iter", "except", "sleep"} /\ pc' \in {"loop", "summary", "crashed"}

\* C1: when the loop is left, processed is the number of distinct non-video
\* posts (by shortcode) whose download_post returned: a post downloaded again
\* after a restart is counted once.
C1_ProcessedCountsDistinct == LoopLeft => processed = Cardinality(downloaded)

\* C2: every run of the retry loop eventually ends, whatever the Media Source
\* raises, given that every sleep ends.
C2_Terminates == <>(pc \in {"done", "crashed"})

\* C3: the k-th retryable failure of a run sleeps schedule[min(k-1, 4)] seconds
\* of 60, 120, 300, 600, 1200; the backoff index is k-1 when it is caught and
\* is incremented by one only when the sleep has ended.
C3_BackoffSchedule ==
    [][/\ (pc = "except" /\ Classify(exc) = "retry") => Len(waits') = Len(waits) + 1
       /\ waits' # waits =>
            /\ pc = "except" /\ pc' = "sleep"
            /\ bo_idx = Len(waits) /\ bo_idx' = bo_idx
            /\ wait_s' = <<60, 120, 300, 600, 1200>>[Min(Len(waits), 4) + 1]
            /\ waits' = Append(waits, wait_s')
       /\ bo_idx' # bo_idx =>
            /\ pc = "sleep" /\ waits' = waits
            /\ bo_idx' = bo_idx + 1]_vars

\* six retryable failures have slept 60, 120, 300, 600, 1200, 1200
C3_Witness ==
    /\ waits = <<60, 120, 300, 600, 1200, 1200>>
    /\ bo_idx = 6
    /\ pc = "loop"

\* C4: an attempt that ends, however it ends, with processed equal to its
\* snapshot and the backoff index >= 5 ends the loop; once five retryable
\* failures have occurred no zero-progress attempt is followed by another
\* traversal; and nothing is traversed once the loop has ended.
C4_StallGuard ==
    [][/\ (EndsAttempt /\ processed' = count_before' /\ bo_idx' >= 5)
            => (pc' = "summary" /\ stalled')
       /\ (EndsAttempt /\ processed' = count_before' /\ Len(waits') >= 5)
            => pc' # "loop"
       /\ pc \in {"summary", "done", "crashed"}
            => pc' \in {"done", "crashed"}]_vars

\* the fifth backoff has ended an attempt without progress, after earlier
\* attempts did download
C4_Witness ==
    /\ pc = "summary"
    /\ stalled
    /\ outcome = "retry"
    /\ bo_idx = 5
    /\ processed > 0

C6_NotFoundEndsRun ==
    [][/\ (pc = "except" /\ exc.kind = "QueryReturnedNotFoundException")
            => /\ pc' = "summary"
               /\ outcome' = "notfound"
               /\ bo_idx' = bo_idx /\ processed' = processed
               /\ waits' = waits /\ invoked' = invoked
       /\ LoopLeft
            => /\ pc' = "done"
               /\ bo_idx' = bo_idx /\ processed' = processed
               /\ waits' = waits /\ invoked' = invoked]_vars

\* a Not-Found exception whose message holds "429", caught after two backoffs
C6_Witness ==
    /\ pc = "summary"
    /\ exc = [kind |-> "QueryReturnedNotFoundException", msg |-> Msg429]
    /\ outcome = "notfound"
    /\ bo_idx = 2
    /\ Len(waits) = 2

\* C7: a video is skipped: download_post is never called for it, it never
\* increments processed, and the traversal goes on with the next post.
C7_VideosSkipped ==
    /\ [](\A p \in invoked \cup downloaded : ~posts[p].is_video)
    /\ [][(pc = "post" /\ posts[i].is_video)
            => /\ pc' = "iter" /\ i' = i
               /\ processed' = processed
               /\ invoked' = invoked /\ downloaded' = downloaded]_vars

\* a video was skipped and the post after it downloaded
C7_Witness ==
    /\ pc = "iter"
    /\ i = 2
    /\ posts[1].is_video
    /\ invoked = {2}
    /\ processed = 1

\* C8: an operator interrupt, wherever it arrives, ends the loop with the
\* summary printed: it never leaves download_profile_images before that.
C8_InterruptPrintsSummary ==
    /\ exc.kind = "KeyboardInterrupt" => pc \in {"except", "summary"}
    /\ pc # "crashed"

\* no text of a retryable message
NoBackoffText(msg) ==
    /\ ~Contains(Lower(msg), PleaseWaitText)
    /\ ~Contains(msg, Text429)
    /\ ~Contains(Lower(msg), TextRateLimit)

\* C9: an exception that is neither Not-Found nor retryable ends the run at
\* once: no sleep, no further traversal, backoff index unchanged, and processed
\* keeps its value, which the summary reports (0 when nothing was downloaded).
C9_FatalEndsRun ==
    /\ [](invoked = {} => processed = 0)
    /\ [][/\ (/\ pc = "except"
              /\ exc.kind \notin {"QueryReturnedNotFoundException", "ConnectionException",
                                  "QueryReturnedBadRequestException",
                                  "QueryReturnedForbiddenException"}
              /\ NoBackoffText(exc.msg))
                => /\ pc' \in {"summary", "crashed"}
                   /\ exc.kind = "Exception" => (pc' = "summary" /\ outcome' = "fatal")
                   /\ bo_idx' = bo_idx /\ processed' = processed
                   /\ waits' = waits /\ invoked' = invoked
          /\ pc = "summary" => (pc' = "done" /\ summary' = processed)]_vars

\* an unclassified exception before any download: the run reports 0
C9_Witness ==
    /\ pc = "done"
    /\ outcome = "fatal"
    /\ invoked = {}
    /\ waits = <<>>
    /\ summary = 0

\* C10: with --fast-update, download_post is not called for a post that is
\* already saved.
C10_FastUpdateSkipsSaved == use_fast_update => ~resaved

\* the shortcodes of the non-video posts among the first n, in order
NonVideoUpTo(n) == SelectSeq([k \in 1..n |-> k], LAMBDA k : ~posts[k].is_video)

NonVideo == {k \in 1..Len(posts) : ~posts[k].is_video}

\* nothing has raised so far in this run
NoExceptionYet ==
    /\ exc = NoExc
    /\ waits = <<>>
    /\ outcome \in {"none", "completed"}

\* C11: while the Media Source raises nothing the run makes one traversal and
\* no backoff, calls download_post once for each non-video post in sequence
\* order, and leaves the loop at the end of the sequence with processed, and
\* the summary, equal to the number of non-video posts.
C11_CleanRun ==
    NoExceptionYet =>
        /\ rounds <= 1 /\ bo_idx = 0 /\ ~stalled
        /\ pc # "crashed"
        /\ calls = NonVideoUpTo(IF pc = "post" THEN i - 1 ELSE i)
        /\ processed = Len(calls)
        /\ LoopLeft => (i = Len(posts) /\ processed = Cardinality(NonVideo))
        /\ pc = "done" => summary = processed

\* [A(image), B(video), C(image)] without any exception: the summary says 2
C11_Witness ==
    /\ NoExceptionYet
    /\ pc = "done"
    /\ Len(posts) = 3
    /\ ~posts[1].is_video /\ posts[2].is_video /\ ~posts[3].is_video
    /\ calls = <<1, 3>>
    /\ rounds = 1
    /\ summary = 2

\* C12: every completed backoff pause (the sleep returned and the index was
\* incremented) is followed by a new traversal; the run never goes from the
\* pause to the end of the loop without retrying.
C12_PauseThenTraversal ==
    [][(pc = "sleep" /\ bo_idx' = bo_idx + 1) => pc' = "loop"]_vars

\* C13: when the loop is left because a traversal completed, every non-video
\* post was downloaded in that traversal, however many restarts came before;
\* an exit with an exception in flight or by the stall guard is not that exit.
C13_SuccessExit ==
    /\ (LoopLeft /\ outcome = "completed")
            => (i = Len(posts) /\ got = NonVideo /\ ~stalled)
    /\ (pc = "summary" /\ exc # NoExc) => outcome # "completed"
    /\ (LoopLeft /\ stalled) => outcome # "completed"

\* the third traversal completes after two retryable failures
C13_Witness ==
    /\ pc = "summary"
    /\ outcome = "completed"
    /\ Len(waits) = 2
    /\ Len(posts) = 3
    /\ got = {1, 3}

\* C14: processed never decreases, the backoff index never decreases (so
\* index >= 5 stays true once reached), and count_before <= processed.
C14_Monotone ==
    /\ [](count_before <= processed)
    /\ [][/\ processed' >= processed
          /\ bo_idx' >= bo_idx
          /\ bo_idx >= 5 => bo_idx' >= 5]_vars

\* a traversal makes progress after the schedule is used up
C14_Witness ==
    /\ pc = "iter"
    /\ bo_idx = 6
    /\ count_before < processed

\* C16: frame conditions.  A download_post that returns adds one to processed
\* and keeps the backoff index; skipping a video changes neither; catching a
\* retryable failure keeps processed, and its pause, once over, adds one to
\* the index (a pause that an interrupt cuts short adds nothing); during the pause no Media Source operation is invoked
\* (get_posts, next post, download_post) and processed does not change.
C16_Frames ==
    [][/\ (pc = "post" /\ pc' = "iter" /\ ~posts[i].is_video)
            => (processed' = processed + 1 /\ bo_idx' = bo_idx /\ calls' = Append(calls, i))
       /\ (pc = "post" /\ posts[i].is_video)
            => (pc' = "iter" /\ processed' = processed /\ bo_idx' = bo_idx
                /\ invoked' = invoked /\ calls' = calls)
       /\ (pc = "except" /\ pc' = "sleep")
            => (processed' = processed /\ bo_idx' = bo_idx /\ i' = i
                /\ invoked' = invoked /\ calls' = calls /\ rounds' = rounds)
       /\ pc = "sleep"
            => (/\ processed' = processed /\ i' = i /\ rounds' = rounds
                /\ invoked' = invoked /\ calls' = calls /\ downloaded' = downloaded
                /\ bo_idx' = IF raisedAt' = "sleep" THEN bo_idx ELSE bo_idx + 1)]_vars

\* after one backoff, the second traversal skipped a video and downloaded a post
C16_Witness ==
    /\ pc = "iter"
    /\ rounds = 2
    /\ bo_idx = 1
    /\ waits = <<60>>
    /\ Len(posts) = 2
    /\ posts[1].is_video
    /\ calls = <<2>>
    /\ processed = 2

\* C17: an exception of the Exception hierarchy raised in a traversal is taken
\* by an except clause and becomes one decision, a backoff or the end of the
\* loop; it never leaves the function.  Once the loop is left the summary is
\* printed once, with processed.
C17_ExceptionsCaught ==
    /\ [][/\ (raisedAt' \in {"pull", "download"} /\ raisedAt' # raisedAt) => pc' = "except"
          /\ (pc = "except" /\ IsInstance(exc, "Exception"))
                => /\ pc' \in {"sleep", "summary"}
                   /\ pc' = "sleep" <=> outcome' \notin {"notfound", "fatal"}
          /\ pc' = "crashed" => exc'.kind = "KeyboardInterrupt"
          /\ pc = "summary" => (pc' = "done" /\ summary = -1 /\ summary' = processed)
          /\ summary' # summary => pc = "summary"
          /\ pc = "done" => pc' = "done"]_vars
    /\ [](pc = "done" => summary = processed)

\* a fatal error inside download_post after one download: the summary says 1
C17_Witness ==
    /\ pc = "done"
    /\ outcome = "fatal"
    /\ summary = 1
    /\ Len(calls) = 2

\* C19: the stall guard ends no run before five retryable failures: while the
\* incremented index is below 5 a pause is followed by a new traversal.  A run
\* has at most five traversals without progress, and a run that downloads
\* nothing has at most five traversals and five pauses.
C19_StallGuardNotEarly ==
    /\ [](stalled => (bo_idx >= 5 /\ Len(waits) >= 5))
    /\ [](zeroRounds <= 5)
    /\ [](downloaded = {} => (rounds <= 5 /\ Len(waits) <= 5))
    /\ [][(pc = "sleep" /\ bo_idx' = bo_idx + 1 /\ bo_idx' < 5) => pc' = "loop"]_vars

\* five traversals fail before any download: the guard ends the run
C19_Witness ==
    /\ pc = "summary"
    /\ stalled
    /\ downloaded = {}
    /\ rounds = 5
    /\ zeroRounds = 5
    /\ waits = <<60, 120, 300, 600, 1200>>

\* the messages of Messages that hold 'please wait a few minutes' in any
\* case, the substring '429', or 'rate limit' in any case
Matching == {Msg429, MsgWait, MsgRate, MsgWaitLower, Msg4290, MsgRateUpper}

\* the class the specification gives an exception
ExpectedClass(e) ==
    IF e.kind = "QueryReturnedNotFoundException" THEN "notfound"
    ELSE IF \/ e.kind \in {"ConnectionException", "QueryReturnedBadRequestException",
                           "QueryReturnedForbiddenException"}
            \/ e.msg \in Matching
         THEN "retry"
         ELSE "fatal"

\* C15: every exception the loop catches gets exactly one class: NotFound for
\* the not-found kind; otherwise Retryable iff its kind is connection error,
\* bad request or forbidden, or its message holds 'please wait a few minutes'
\* (any case), '429', or 'rate limit' (any case); otherwise Fatal.  The except
\* clauses act on that class: a pause for Retryable, the end of the loop for
\* the other two.
C15_Classification ==
    /\ [](pc = "except" =>
            /\ Classify(exc) = ExpectedClass(exc)
            /\ Cardinality({c \in {"notfound", "retry", "fatal"} : Classify(exc) = c}) = 1)
    /\ [][pc = "except" =>
            CASE ExpectedClass(exc) = "retry"    -> pc' = "sleep" /\ outcome' = outcome
              [] ExpectedClass(exc) = "notfound" -> pc' = "summary" /\ outcome' = "notfound"
              [] ExpectedClass(exc) = "fatal"    -> pc' = "summary" /\ outcome' = "fatal"]_vars

\* 'ratelimit' without the space is no rate-limit message: the run ends
C15_Witness ==
    /\ pc = "summary"
    /\ outcome = "fatal"
    /\ exc = [kind |-> "ProfileNotExistsException", msg |-> MsgRateJoined]

\* the method the priority session-file > sessionid > login selects; an
\* argument counts as given when it is a non-empty string
ExpectedMethods(a) ==
    IF Truthy(a.session_file) /\ a.file_exists THEN {"session_file"}
    ELSE IF Truthy(a.sessionid) THEN {"sessionid"}
    ELSE IF Truthy(a.login_user) THEN {"login"}
    ELSE {}

\* C18: at most one authentication method is used, the one the priority
\* session-file (given and existing) > sessionid > login selects; the session
\* is saved only after a login that succeeded; and a login that fails with an
\* error of the Exception hierarchy, at the password or at the two-factor
\* step, does not abort the run: it goes on to profile resolution.
C18_Authentication ==
    /\ [](Cardinality(auth.used) <= 1)
    /\ [](auth.session_saved => (auth.used = {"login"} /\ auth.logged_in))
    /\ [][pc = "auth" => auth'.used = ExpectedMethods(args)]_vars
    /\ [][(/\ pc \in {"auth", "twofactor"}
           /\ auth'.used = {"login"}
           /\ ~auth'.logged_in
           /\ pc' # "twofactor"
           /\ exc'.kind # "KeyboardInterrupt") => pc' = "resolve"]_vars

\* a step of the run before the retry loop fails at profile resolution
ResolutionFailed == raisedAt = "resolve"

\* C20: when Profile.from_username raises, whatever it raises, the run ends
\* there: no retry of the resolution, no backoff sleep, no traversal, no
\* download_post, and no summary of the loop.
C20_ResolutionFailureEndsRun ==
    /\ [](ResolutionFailed =>
            /\ pc \in {"returned", "crashed"}
            /\ pc = "returned" <=> IsInstance(exc, "Exception")
            /\ waits = <<>> /\ wait_s = 0 /\ bo_idx = 0
            /\ rounds = 0 /\ i = 0
            /\ invoked = {} /\ processed = 0
            /\ summary = -1)
    /\ [][(pc = "resolve" /\ exc' # NoExc) => ResolutionFailed']_vars
    /\ [][(pc = "returned" \/ pc = "crashed") => pc' = pc]_vars

\* a rate-limit error, retryable inside the loop, ends a logged-in run
C20_Witness ==
    /\ pc = "returned"
    /\ ResolutionFailed
    /\ exc = [kind |-> "Exception", msg |-> Msg429]
    /\ should_backoff(exc)
    /\ auth.logged_in

=============================================================================
